---------------------------- MODULE Spec2Model ----------------------------
(***************************************************************************)
(* A model of ogg-coverart (src/src/main.rs): the METADATA_BLOCK_PICTURE    *)
(* encoder write_to, the metadata extractors from_png / from_jpeg, and the  *)
(* control flow of run and main with their output sinks.                    *)
(*                                                                          *)
(* Bytes are the naturals 0..255; a byte string, a str and a Vec<u8> are    *)
(* sequences of bytes.  Four specifications share the variables:            *)
(*   Spec       run and main, from the parsed arguments to the exit status  *)
(*   SpecWrite  write_to applied to a drawn record, into a Vec<u8>          *)
(*   SpecParse  from_type applied to a drawn file and image type            *)
(*   SpecLen    write_to on records given by their lengths (usize wide)     *)
(***************************************************************************)
EXTENDS Integers, Sequences, FiniteSets, TLC

VARIABLES args, pc, input_type, out_fmt, file, meta, out, b64, wstep, result, status

vars == <<args, pc, input_type, out_fmt, file, meta, out, b64, wstep, result, status>>

----------------------------------------------------------------------------
(* Bounds of the model *)

\* longest image file content drawn
MaxDataLen == 2
\* capacity of the BufWriter around the output file (std's is larger)
BufCap == 16
\* capacity of the line buffer of standard output (std's is larger)
LineCap == 12

(* Program constants *)

\* picture type written first: cover (front)
PICTURE_TYPE == 3
\* description length, always written as zero
DESCRIPTION_LEN == 0
\* index colour count, always written as zero
INDEX_COLORS == 0
\* b'\n'
NEWLINE == 10

\* "image/png"
MIME_PNG == <<105, 109, 97, 103, 101, 47, 112, 110, 103>>
\* "image/jpeg"
MIME_JPEG == <<105, 109, 97, 103, 101, 47, 106, 112, 101, 103>>
\* b";FFMETADATA1\nMETADATA_BLOCK_PICTURE="
FFMETADATA_HEADER == <<59, 70, 70, 77, 69, 84, 65, 68, 65, 84, 65, 49, 10,
                       77, 69, 84, 65, 68, 65, 84, 65, 95, 66, 76, 79, 67, 75,
                       95, 80, 73, 67, 84, 85, 82, 69, 61>>

----------------------------------------------------------------------------
(* Sequences of bytes *)

Take(s, n) == SubSeq(s, 1, n)

Drop(s, n) == SubSeq(s, n + 1, Len(s))

\* the sequences over S of length at most n
SeqsUpTo(S, n) == UNION {[1..k -> S] : k \in 0..n}

----------------------------------------------------------------------------
(* Integers of the program.  A u32 is <<hi, lo>>, two 16-bit limbs, most    *)
(* significant first; a usize (64 bits) is four limbs.  The limbs keep the  *)
(* whole range of both types within the numbers TLC computes with.          *)

LIMB == 256 * 256

\* the u32 of a small number
u32_of(n) == <<n \div LIMB, n % LIMB>>

\* the usize of a small number, as len() returns it
usize_of(n) == <<0, 0, n \div LIMB, n % LIMB>>

\* u16 -> u32 by into()
u32_from_u16(n) == <<0, n>>

(* WriteU32::write_u32b: n.to_be_bytes(), handed to write_all *)

\* a faulty variant: least significant byte first
to_be_bytes_le(n) == <<n[2] % 256, n[2] \div 256, n[1] % 256, n[1] \div 256>>

to_be_bytes(n) == <<n[1] \div 256, n[1] % 256, n[2] \div 256, n[2] % 256>>

\* a faulty variant: the cast `as u32`, which keeps the low 32 bits
try_into_wrapping(z) == [ok |-> TRUE, val |-> <<z[3], z[4]>>]

\* usize -> u32 by try_into(): Err when the value does not fit
try_into_u32(z) ==
    IF z[1] = 0 /\ z[2] = 0 THEN [ok |-> TRUE, val |-> <<z[3], z[4]>>]
    ELSE [ok |-> FALSE, val |-> <<0, 0>>]

----------------------------------------------------------------------------
(* The output sinks of run.  A sink is [kind, buf, dest, ioerr]:             *)
(*   kind   "none" (not created), "stdout" (io::stdout(), line buffered),    *)
(*          "file" (BufWriter<File>), "vec" (a Vec<u8>, never fails)         *)
(*   buf    bytes held in the writer's buffer                                *)
(*   dest   bytes the destination (file, terminal or pipe) has received      *)
(*   ioerr  whether a write to the destination has failed                    *)
(* A write's result is the set of its possible outcomes [w, ok]: a write to  *)
(* the destination either takes all the bytes or fails after a prefix; a `?` *)
(* passes a failed outcome on and continues from a successful one.           *)

NoSink == [kind |-> "none", buf |-> <<>>, dest |-> <<>>, ioerr |-> FALSE]

NewSink(k) == [kind |-> k, buf |-> <<>>, dest |-> <<>>, ioerr |-> FALSE]

Ok(w) == {[w |-> w, ok |-> TRUE]}

\* write_all on the unbuffered destination (File, StdoutRaw)
RawWriteAll(w, bytes) ==
    IF bytes = <<>> THEN Ok(w)
    ELSE IF w.kind = "vec" THEN Ok([w EXCEPT !.dest = @ \o bytes])
    ELSE Ok([w EXCEPT !.dest = @ \o bytes])
         \cup {[w |-> [w EXCEPT !.dest = @ \o Take(bytes, k), !.ioerr = TRUE], ok |-> FALSE]
                 : k \in 0..(Len(bytes) - 1)}

\* BufWriter::flush_buf: the buffer goes to the destination; what was written leaves it
FlushBuf(w) ==
    {[w |-> [r.w EXCEPT !.buf = Drop(w.buf, Len(r.w.dest) - Len(w.dest))], ok |-> r.ok]
       : r \in RawWriteAll(w, w.buf)}

ToBuffer(w, bytes) == [w EXCEPT !.buf = @ \o bytes]

\* BufWriter::write_all with a buffer of capacity cap
BufWriterWriteAll(w, bytes, cap) ==
    IF Len(bytes) < cap - Len(w.buf) THEN Ok(ToBuffer(w, bytes))
    ELSE UNION {IF ~f.ok THEN {f}
                ELSE IF Len(bytes) >= cap THEN RawWriteAll(f.w, bytes)
                ELSE Ok(ToBuffer(f.w, bytes))
                  : f \in IF Len(bytes) > cap - Len(w.buf) THEN FlushBuf(w) ELSE Ok(w)}

\* index of the last newline of bytes, 0 when there is none (memrchr)
LastNewline(bytes) ==
    LET I == {i \in 1..Len(bytes) : bytes[i] = NEWLINE}
    IN IF I = {} THEN 0 ELSE CHOOSE i \in I : \A j \in I : j <= i

\* LineWriter::write_all, as io::stdout() does it
LineWriterWriteAll(w, bytes, cap) ==
    LET nl == LastNewline(bytes) IN
    IF nl = 0
    THEN UNION {IF ~f.ok THEN {f} ELSE BufWriterWriteAll(f.w, bytes, cap)
                  : f \in IF w.buf # <<>> /\ w.buf[Len(w.buf)] = NEWLINE
                          THEN FlushBuf(w) ELSE Ok(w)}
    ELSE LET lines == IF w.buf = <<>> THEN RawWriteAll(w, Take(bytes, nl))
                      ELSE UNION {IF ~f.ok THEN {f} ELSE FlushBuf(f.w)
                                    : f \in BufWriterWriteAll(w, Take(bytes, nl), cap)}
         IN UNION {IF ~g.ok THEN {g} ELSE BufWriterWriteAll(g.w, Drop(bytes, nl), cap)
                     : g \in lines}

\* out.write_all(bytes) through the Box<dyn Write>
SinkWriteAll(w, bytes) ==
    CASE w.kind = "vec" -> RawWriteAll(w, bytes)
      [] w.kind = "file" -> BufWriterWriteAll(w, bytes, BufCap)
      [] w.kind = "stdout" -> LineWriterWriteAll(w, bytes, LineCap)

\* the sink going out of scope (BufWriter's Drop), and the flush of standard
\* output when the process exits: the buffer is flushed and the error ignored
DropFlush(w) == {[r EXCEPT !.ok = TRUE] : r \in FlushBuf(w)}

----------------------------------------------------------------------------
(* base64::write::EncoderWriter over the sink, with base64::STANDARD *)

\* the standard alphabet: A-Z a-z 0-9 + /
B64Char(i) ==
    IF i < 26 THEN 65 + i
    ELSE IF i < 52 THEN 97 + (i - 26)
    ELSE IF i < 62 THEN 48 + (i - 52)
    ELSE IF i = 62 THEN 43 ELSE 47

\* '='
B64_PAD == 61

Pow64(k) == CASE k = 0 -> 1 [] k = 1 -> 64 [] k = 2 -> 4096 [] k = 3 -> 262144

\* the encoding of complete 3-byte groups: 4 characters per group
EncodeChunks(s) ==
    [i \in 1..(4 * (Len(s) \div 3)) |->
        LET g == (i - 1) \div 4
            j == (i - 1) % 4
            v == s[3 * g + 1] * 65536 + s[3 * g + 2] * 256 + s[3 * g + 3]
        IN B64Char((v \div Pow64(3 - j)) % 64)]

\* a faulty variant: the last bytes encoded without padding
EncodeFinalUnpadded(e) ==
    CASE Len(e) = 0 -> <<>>
      [] Len(e) = 1 -> <<B64Char(e[1] \div 4), B64Char((e[1] % 4) * 16)>>
      [] Len(e) = 2 -> <<B64Char(e[1] \div 4), B64Char((e[1] % 4) * 16 + e[2] \div 16),
                         B64Char((e[2] % 16) * 4)>>

\* the encoding of the last 1 or 2 bytes, padded
EncodeFinal(e) ==
    CASE Len(e) = 0 -> <<>>
      [] Len(e) = 1 -> <<B64Char(e[1] \div 4), B64Char((e[1] % 4) * 16), B64_PAD, B64_PAD>>
      [] Len(e) = 2 -> <<B64Char(e[1] \div 4), B64Char((e[1] % 4) * 16 + e[2] \div 16),
                         B64Char((e[2] % 16) * 4), B64_PAD>>

\* the encoder: whether it wraps the sink, and the input bytes it holds back
NoEncoder == [active |-> FALSE, extra |-> <<>>]

NewEncoder == [active |-> TRUE, extra |-> <<>>]

\* outcomes [out, b64, ok] of b64_out.write_all(bytes): complete groups are
\* encoded and written to the sink, the rest is held; a failed write holds nothing new
EncoderWriteAll(o, e, bytes) ==
    LET all == e.extra \o bytes
        n3 == 3 * (Len(all) \div 3)
    IN IF bytes = <<>> \/ n3 = 0
       THEN {[out |-> o, b64 |-> [e EXCEPT !.extra = all], ok |-> TRUE]}
       ELSE {[out |-> r.w,
              b64 |-> IF r.ok THEN [e EXCEPT !.extra = Drop(all, n3)] ELSE e,
              ok |-> r.ok] : r \in SinkWriteAll(o, EncodeChunks(Take(all, n3)))}

\* b64_out.finish(): the held bytes are encoded with padding and written
EncoderFinish(o, e) ==
    {[out |-> r.w,
      b64 |-> IF r.ok THEN NoEncoder ELSE e,
      ok |-> r.ok] : r \in SinkWriteAll(o, EncodeFinal(e.extra))}

\* w.write_all(bytes) for the writer write_to is given: the sink, or the encoder over it
WriterWriteAll(o, e, bytes) ==
    IF e.active THEN EncoderWriteAll(o, e, bytes)
    ELSE {[out |-> r.w, b64 |-> e, ok |-> r.ok] : r \in SinkWriteAll(o, bytes)}

----------------------------------------------------------------------------
(* MetadataBlockPicture and its constructors *)

None == <<>>

Some(x) == <<x>>

MetadataBlockPicture(mime, width, height, bit_depth, data) ==
    [mime |-> mime, width |-> width, height |-> height, bit_depth |-> bit_depth, data |-> data]

ColorType == {"Grayscale", "Rgb", "Indexed", "GrayscaleAlpha", "Rgba"}

BitDepth == {"One", "Two", "Four", "Eight", "Sixteen"}

PixelFormat == {"L8", "L16", "RGB24", "CMYK32"}

\* a faulty variant: an indexed image counted as three channels
num_channels_indexed_rgb(color_type) ==
    CASE color_type = "Grayscale" -> 1
      [] color_type = "Rgb" -> 3
      [] color_type = "Indexed" -> 3
      [] color_type = "GrayscaleAlpha" -> 2
      [] color_type = "Rgba" -> 4

\* the match on info.color_type
num_channels(color_type) ==
    CASE color_type = "Grayscale" -> 1
      [] color_type = "Rgb" -> 3
      [] color_type = "Indexed" -> 1
      [] color_type = "GrayscaleAlpha" -> 2
      [] color_type = "Rgba" -> 4

\* the match on info.bit_depth
bits_per_channel(bit_depth) ==
    CASE bit_depth = "One" -> 1
      [] bit_depth = "Two" -> 2
      [] bit_depth = "Four" -> 4
      [] bit_depth = "Eight" -> 8
      [] bit_depth = "Sixteen" -> 16

\* the match on info.pixel_format
jpeg_bit_depth(pixel_format) ==
    CASE pixel_format = "L8" -> 8
      [] pixel_format = "L16" -> 16
      [] pixel_format = "RGB24" -> 24
      [] pixel_format = "CMYK32" -> 32

\* what a decoder's read_info makes of a file: an error, or the header's fields
NoInfo == [ok |-> FALSE, color |-> "", depth |-> "", width |-> <<0, 0>>, height |-> <<0, 0>>]

PngInfo(color_type, bit_depth, width, height) ==
    [ok |-> TRUE, color |-> color_type, depth |-> bit_depth, width |-> width, height |-> height]

JpegInfo(pixel_format, width, height) ==
    [ok |-> TRUE, color |-> pixel_format, depth |-> "", width |-> width, height |-> height]

\* a file: its bytes, whether fs::read can read it, and what the png and the
\* jpeg_decoder crates make of its bytes
File(bytes, readable, png, jpeg) ==
    [bytes |-> bytes, readable |-> readable, png |-> png, jpeg |-> jpeg]

\* a faulty variant: a record of zeros for a header that does not parse
from_png_best_effort(f) ==
    IF ~f.png.ok THEN Some(MetadataBlockPicture(MIME_PNG, <<0, 0>>, <<0, 0>>, <<0, 0>>, f.bytes))
    ELSE Some(MetadataBlockPicture(MIME_PNG, f.png.width, f.png.height,
                                   u32_of(num_channels(f.png.color) * bits_per_channel(f.png.depth)),
                                   f.bytes))

\* from_png: Err(..) is None, Ok(record) is Some(record)
from_png(f) ==
    IF ~f.png.ok THEN None
    ELSE Some(MetadataBlockPicture(MIME_PNG, f.png.width, f.png.height,
                                   u32_of(num_channels(f.png.color) * bits_per_channel(f.png.depth)),
                                   f.bytes))

from_jpeg(f) ==
    IF ~f.jpeg.ok THEN None
    ELSE Some(MetadataBlockPicture(MIME_JPEG, u32_from_u16(f.jpeg.width), u32_from_u16(f.jpeg.height),
                                   u32_of(jpeg_bit_depth(f.jpeg.color)), f.bytes))

from_type(f, image_type) ==
    CASE image_type = "Png" -> from_png(f)
      [] image_type = "Jpeg" -> from_jpeg(f)

----------------------------------------------------------------------------
(* write_to: its ten statements in order.  A statement is [panic, bytes]:   *)
(* the bytes it hands to write_all, or the panic of a failed expect().      *)

WRITE_TO_STMTS == 10

Bytes(b) == [panic |-> FALSE, bytes |-> b]

\* w.write_u32b(n)
write_u32b(n) == Bytes(to_be_bytes(n))

\* w.write_u32b(len.try_into().expect(..))
write_len(n) ==
    LET r == try_into_u32(n)
    IN IF r.ok THEN write_u32b(r.val) ELSE [panic |-> TRUE, bytes |-> <<>>]

\* a faulty variant: the index colour count left out
write_to_stmt_no_index(m, i) ==
    CASE i = 1 -> write_u32b(u32_of(PICTURE_TYPE))
      [] i = 2 -> write_len(usize_of(Len(m.mime)))
      [] i = 3 -> Bytes(m.mime)
      [] i = 4 -> write_u32b(u32_of(DESCRIPTION_LEN))
      [] i = 5 -> write_u32b(m.width)
      [] i = 6 -> write_u32b(m.height)
      [] i = 7 -> write_u32b(m.bit_depth)
      [] i = 8 -> Bytes(<<>>)
      [] i = 9 -> write_len(usize_of(Len(m.data)))
      [] i = 10 -> Bytes(m.data)

\* a faulty variant: height written before width
write_to_stmt_height_first(m, i) ==
    CASE i = 1 -> write_u32b(u32_of(PICTURE_TYPE))
      [] i = 2 -> write_len(usize_of(Len(m.mime)))
      [] i = 3 -> Bytes(m.mime)
      [] i = 4 -> write_u32b(u32_of(DESCRIPTION_LEN))
      [] i = 5 -> write_u32b(m.height)
      [] i = 6 -> write_u32b(m.width)
      [] i = 7 -> write_u32b(m.bit_depth)
      [] i = 8 -> write_u32b(u32_of(INDEX_COLORS))
      [] i = 9 -> write_len(usize_of(Len(m.data)))
      [] i = 10 -> Bytes(m.data)

\* the statements of lines 140 to 154
write_to_stmt(m, i) ==
    CASE i = 1 -> write_u32b(u32_of(PICTURE_TYPE))
      [] i = 2 -> write_len(usize_of(Len(m.mime)))
      [] i = 3 -> Bytes(m.mime)
      [] i = 4 -> write_u32b(u32_of(DESCRIPTION_LEN))
      [] i = 5 -> write_u32b(m.width)
      [] i = 6 -> write_u32b(m.height)
      [] i = 7 -> write_u32b(m.bit_depth)
      [] i = 8 -> write_u32b(u32_of(INDEX_COLORS))
      [] i = 9 -> write_len(usize_of(Len(m.data)))
      [] i = 10 -> Bytes(m.data)

\* all that write_to hands to its writer, in order
RECURSIVE write_to_upto(_, _)
write_to_upto(m, i) == IF i = 0 THEN <<>> ELSE write_to_upto(m, i - 1) \o write_to_stmt(m, i).bytes

write_to(m) == write_to_upto(m, WRITE_TO_STMTS)

----------------------------------------------------------------------------
(* The command line, as clap hands it to run: the two groups allow one flag  *)
(* each, and the output format group requires one.  ext is the extension of  *)
(* the input path ("" for none), output is the -o value ("" when omitted).   *)

Extensions == {"png", "jpg", "jpeg", "PNG", ""}

Outputs == {"", "-", "cover.bin"}

ArgMatches ==
    {a \in [force_png : BOOLEAN, force_jpeg : BOOLEAN,
            fmt_bin : BOOLEAN, fmt_base64 : BOOLEAN, fmt_ffmetadata : BOOLEAN,
            ext : Extensions, output : Outputs] :
        /\ ~(a.force_png /\ a.force_jpeg)
        /\ Cardinality({f \in {"fmt_bin", "fmt_base64", "fmt_ffmetadata"} : a[f]}) = 1}

NoArgs == [force_png |-> FALSE, force_jpeg |-> FALSE, fmt_bin |-> TRUE, fmt_base64 |-> FALSE,
           fmt_ffmetadata |-> FALSE, ext |-> "", output |-> ""]

\* the files the input path may name
FileContents == {<<137>>, <<255, NEWLINE>>}

RunFiles ==
    {File(b, TRUE, i[1], i[2]) :
        b \in FileContents,
        i \in {<<PngInfo("Rgb", "Eight", u32_of(100), u32_of(200)), NoInfo>>,
               <<NoInfo, JpegInfo("RGB24", 640, 480)>>,
               <<NoInfo, NoInfo>>}}
    \cup {File(<<>>, FALSE, NoInfo, NoInfo)}

----------------------------------------------------------------------------
(* run and main *)

Init ==
    /\ args \in ArgMatches
    /\ pc = "start"
    /\ input_type = "none"
    /\ out_fmt = "none"
    /\ file = None
    /\ meta = None
    /\ out = NoSink
    /\ b64 = NoEncoder
    /\ wstep = 0
    /\ result = "running"
    /\ status = -1

\* a faulty variant: PNG assumed when nothing decides
resolve_default_png(a) ==
    IF a.force_jpeg THEN "Jpeg"
    ELSE IF a.ext \in {"jpg", "jpeg"} THEN "Jpeg" ELSE "Png"

\* a faulty variant: the extension consulted before the flags
resolve_extension_first(a) ==
    CASE a.ext = "png" -> "Png"
      [] a.ext \in {"jpg", "jpeg"} -> "Jpeg"
      [] a.force_png -> "Png"
      [] a.force_jpeg -> "Jpeg"
      [] OTHER -> "none"

\* the image type: an override flag, else the extension, else bail!
resolve_input_type(a) ==
    IF a.force_png THEN "Png"
    ELSE IF a.force_jpeg THEN "Jpeg"
    ELSE CASE a.ext = "png" -> "Png"
           [] a.ext \in {"jpg", "jpeg"} -> "Jpeg"
           [] OTHER -> "none"

ResolveInputType ==
    /\ pc = "start"
    /\ input_type' = resolve_input_type(args)
    /\ IF input_type' = "none"
       THEN result' = "ErrResolve" /\ pc' = "returned"
       ELSE result' = result /\ pc' = "typed"
    /\ UNCHANGED <<args, out_fmt, file, meta, out, b64, wstep, status>>

SelectOutputFormat ==
    /\ pc = "typed"
    /\ out_fmt' = IF args.fmt_bin THEN "Binary"
                  ELSE IF args.fmt_base64 THEN "Base64"
                  ELSE "FFMetadata"
    /\ pc' = "formatted"
    /\ UNCHANGED <<args, input_type, file, meta, out, b64, wstep, result, status>>

\* fs::read(input_path)
ReadInput ==
    /\ pc = "formatted"
    /\ \E f \in RunFiles :
         /\ file' = Some(f)
         /\ IF f.readable
            THEN result' = result /\ pc' = "loaded"
            ELSE result' = "ErrRead" /\ pc' = "returned"
    /\ UNCHANGED <<args, input_type, out_fmt, meta, out, b64, wstep, status>>

\* MetadataBlockPicture::from_type(&data, input_type)
ParseInput ==
    /\ pc = "loaded"
    /\ meta' = from_type(file[1], input_type)
    /\ IF meta' = None
       THEN result' = "ErrParse" /\ pc' = "returned"
       ELSE result' = result /\ pc' = "parsed"
    /\ UNCHANGED <<args, input_type, out_fmt, file, out, b64, wstep, status>>

\* the output sink: standard output, or a BufWriter over File::create(path)
OpenOutput ==
    /\ pc = "parsed"
    /\ IF args.output \in {"", "-"}
       THEN out' = NewSink("stdout") /\ result' = result /\ pc' = "opened"
       ELSE \E created \in BOOLEAN :
              IF created
              THEN out' = NewSink("file") /\ result' = result /\ pc' = "opened"
              ELSE out' = out /\ result' = "ErrCreate" /\ pc' = "returned"
    /\ UNCHANGED <<args, input_type, out_fmt, file, meta, b64, wstep, status>>

\* match out_fmt: the ffmetadata header, and the encoder around the sink
BeginOutput ==
    /\ pc = "opened"
    /\ wstep' = 1
    /\ CASE out_fmt = "Binary" -> out' = out /\ b64' = b64 /\ pc' = "write_to"
         [] out_fmt = "Base64" -> out' = out /\ b64' = NewEncoder /\ pc' = "write_to"
         [] out_fmt = "FFMetadata" ->
              \E r \in SinkWriteAll(out, FFMETADATA_HEADER) :
                 /\ out' = r.w
                 /\ IF r.ok THEN b64' = NewEncoder /\ pc' = "write_to"
                    ELSE b64' = b64 /\ pc' = "unwind"
    /\ UNCHANGED <<args, input_type, out_fmt, file, meta, result, status>>

\* one statement of meta.write_to(w)
WriteToStep ==
    /\ pc = "write_to"
    /\ LET st == write_to_stmt(meta[1], wstep) IN
       IF st.panic
       THEN pc' = "panicked" /\ UNCHANGED <<out, b64, wstep>>
       ELSE \E r \in WriterWriteAll(out, b64, st.bytes) :
              /\ out' = r.out
              /\ b64' = r.b64
              /\ IF ~r.ok THEN pc' = "unwind" /\ wstep' = wstep
                 ELSE IF wstep < WRITE_TO_STMTS THEN pc' = "write_to" /\ wstep' = wstep + 1
                 ELSE wstep' = wstep /\ pc' = IF b64.active THEN "finish" ELSE "return_ok"
    /\ UNCHANGED <<args, input_type, out_fmt, file, meta, result, status>>

\* b64_out.finish()?; drop(b64_out)
FinishEncoder ==
    /\ pc = "finish"
    /\ \E r \in EncoderFinish(out, b64) :
         /\ out' = r.out
         /\ b64' = r.b64
         /\ pc' = IF r.ok THEN "newline" ELSE "unwind"
    /\ UNCHANGED <<args, input_type, out_fmt, file, meta, wstep, result, status>>

\* out.write_all(b"\n")?
WriteNewline ==
    /\ pc = "newline"
    /\ \E r \in SinkWriteAll(out, <<NEWLINE>>) :
         /\ out' = r.w
         /\ pc' = IF r.ok THEN "return_ok" ELSE "unwind"
    /\ UNCHANGED <<args, input_type, out_fmt, file, meta, b64, wstep, result, status>>

\* the locals of run going out of scope: an unfinished encoder writes what it
\* holds, a BufWriter flushes; both ignore the error
DropLocals(o, e) ==
    LET afterEncoder == IF e.active /\ e.extra # <<>>
                        THEN {r.w : r \in SinkWriteAll(o, EncodeFinal(e.extra))}
                        ELSE {o}
    IN UNION {IF w.kind = "file" THEN {r.w : r \in DropFlush(w)} ELSE {w} : w \in afterEncoder}

\* Ok(()) at the end of run
ReturnOk ==
    /\ pc = "return_ok"
    /\ out' \in DropLocals(out, b64)
    /\ result' = "Ok"
    /\ pc' = "returned"
    /\ UNCHANGED <<args, input_type, out_fmt, file, meta, b64, wstep, status>>

\* a `?` on a failed write returns the error
ReturnErr ==
    /\ pc = "unwind"
    /\ out' \in DropLocals(out, b64)
    /\ result' = "ErrWrite"
    /\ pc' = "returned"
    /\ UNCHANGED <<args, input_type, out_fmt, file, meta, b64, wstep, status>>

\* a failed expect() unwinds run and main
Panic ==
    /\ pc = "panicked"
    /\ out' \in DropLocals(out, b64)
    /\ result' = "Panic"
    /\ pc' = "returned"
    /\ UNCHANGED <<args, input_type, out_fmt, file, meta, b64, wstep, status>>

\* the exit status main ends with
exit_status(r) == CASE r = "Ok" -> 0 [] r = "Panic" -> 101 [] OTHER -> 1

\* main: the exit status, and the flush of standard output at exit
Main ==
    /\ pc = "returned"
    /\ status' = exit_status(result)
    /\ out' \in IF out.kind = "stdout" THEN {r.w : r \in DropFlush(out)} ELSE {out}
    /\ pc' = "exited"
    /\ UNCHANGED <<args, input_type, out_fmt, file, meta, b64, wstep, result>>

Next ==
    \/ ResolveInputType
    \/ SelectOutputFormat
    \/ ReadInput
    \/ ParseInput
    \/ OpenOutput
    \/ BeginOutput
    \/ WriteToStep
    \/ FinishEncoder
    \/ WriteNewline
    \/ ReturnOk
    \/ ReturnErr
    \/ Main

Spec == Init /\ [][Next]_vars

----------------------------------------------------------------------------
(* write_to on its own: a drawn record written into a Vec<u8> *)

U32Samples == {<<0, 0>>, <<258, 772>>, <<65535, 65535>>}

ByteSamples == {0, NEWLINE, 255}

Mimes == {<<>>, <<97>>, MIME_PNG, MIME_JPEG}

Pictures ==
    {MetadataBlockPicture(mime, w, h, d, data) :
        mime \in Mimes, w \in U32Samples, h \in U32Samples, d \in U32Samples,
        data \in SeqsUpTo(ByteSamples, MaxDataLen)}

InitWrite ==
    /\ args = NoArgs
    /\ pc = "write_to"
    /\ input_type = "none"
    /\ out_fmt = "Binary"
    /\ file = None
    /\ meta \in {Some(m) : m \in Pictures}
    /\ out = NewSink("vec")
    /\ b64 = NoEncoder
    /\ wstep = 1
    /\ result = "running"
    /\ status = -1

SpecWrite == InitWrite /\ [][WriteToStep]_vars

----------------------------------------------------------------------------
(* from_type on its own: a drawn file and image type *)

PngInfos ==
    {PngInfo(c, b, w, h) : c \in ColorType, b \in BitDepth,
                           w \in {u32_of(100), <<258, 772>>}, h \in {u32_of(200), <<65535, 65535>>}}

JpegInfos == {JpegInfo(f, w, 480) : f \in PixelFormat, w \in {640, 65535}}

ParseFiles ==
    {File(b, TRUE, png, jpeg) :
        b \in FileContents, png \in PngInfos \cup {NoInfo}, jpeg \in JpegInfos \cup {NoInfo}}

InitParse ==
    /\ args = NoArgs
    /\ pc = "loaded"
    /\ input_type \in {"Png", "Jpeg"}
    /\ out_fmt = "Binary"
    /\ file \in {Some(f) : f \in ParseFiles}
    /\ meta = None
    /\ out = NoSink
    /\ b64 = NoEncoder
    /\ wstep = 0
    /\ result = "running"
    /\ status = -1

SpecParse == InitParse /\ [][ParseInput]_vars

----------------------------------------------------------------------------
(* write_to on records given by the lengths of mime and data, which range   *)
(* over the whole of usize.  The sink keeps the chunks handed to write_all: *)
(* [bytes, len], the bytes of a 4-byte field, or the length of a slice.     *)

UsizeSamples ==
    {usize_of(0), usize_of(9), <<0, 0, 65535, 65535>>, <<0, 1, 0, 0>>, <<0, 1, 0, 9>>,
     <<1, 0, 0, 9>>, <<65535, 65535, 65535, 65535>>}

LenPictures ==
    {[mime_len |-> ml, width |-> w, height |-> u32_of(200), bit_depth |-> u32_of(24),
      data_len |-> dl] : ml \in UsizeSamples, dl \in UsizeSamples, w \in U32Samples}

Chunk(st) == [bytes |-> st.bytes, len |-> usize_of(Len(st.bytes))]

Slice(z) == [bytes |-> <<>>, len |-> z]

\* the statements of write_to: [panic, chunk]
write_to_len_stmt(m, i) ==
    CASE i = 2 -> [panic |-> write_len(m.mime_len).panic, chunk |-> Chunk(write_len(m.mime_len))]
      [] i = 3 -> [panic |-> FALSE, chunk |-> Slice(m.mime_len)]
      [] i = 9 -> [panic |-> write_len(m.data_len).panic, chunk |-> Chunk(write_len(m.data_len))]
      [] i = 10 -> [panic |-> FALSE, chunk |-> Slice(m.data_len)]
      [] OTHER -> [panic |-> FALSE, chunk |-> Chunk(write_to_stmt(m, i))]

WriteToLenStep ==
    /\ pc = "write_to"
    /\ LET st == write_to_len_stmt(meta[1], wstep) IN
       IF st.panic
       THEN pc' = "panicked" /\ UNCHANGED <<out, wstep>>
       ELSE /\ out' = [out EXCEPT !.dest = Append(@, st.chunk)]
            /\ IF wstep < WRITE_TO_STMTS THEN pc' = "write_to" /\ wstep' = wstep + 1
               ELSE wstep' = wstep /\ pc' = "return_ok"
    /\ UNCHANGED <<args, input_type, out_fmt, file, meta, b64, result, status>>

InitLen ==
    /\ args = NoArgs
    /\ pc = "write_to"
    /\ input_type = "none"
    /\ out_fmt = "Binary"
    /\ file = None
    /\ meta \in {Some(m) : m \in LenPictures}
    /\ out = NewSink("vec")
    /\ b64 = NoEncoder
    /\ wstep = 1
    /\ result = "running"
    /\ status = -1

NextLen ==
    \/ WriteToLenStep
    \/ Panic
    \/ ReturnOk
    \/ Main

SpecLen == InitLen /\ [][NextLen]_vars

----------------------------------------------------------------------------
(* Reading a record and a base64 text back, for the properties below *)

Min(a, b) == IF a <= b THEN a ELSE b

\* s[from .. from + n - 1], as far as s goes
Field(s, from, n) == SubSeq(s, Min(from, Len(s) + 1), Min(from + n - 1, Len(s)))

\* the u32 that four bytes hold, most significant byte first
BigEndian(b) == IF Len(b) = 4 THEN <<b[1] * 256 + b[2], b[3] * 256 + b[4]>> ELSE <<LIMB, LIMB>>

\* a u32 as a number, for a length that a byte sequence of the model can have
Small(v) == IF v[1] = 0 THEN v[2] ELSE LIMB

\* a record read field by field: type, mime length, mime, description length,
\* width, height, bit depth, index count, data length, data; rest is what is left
ParseRecord(d) ==
    LET mlen == Small(BigEndian(Field(d, 5, 4)))
        dlen == Small(BigEndian(Field(d, 29 + mlen, 4)))
    IN [type |-> BigEndian(Field(d, 1, 4)),
        mime_len |-> BigEndian(Field(d, 5, 4)),
        mime |-> Field(d, 9, mlen),
        description_len |-> BigEndian(Field(d, 9 + mlen, 4)),
        width |-> BigEndian(Field(d, 13 + mlen, 4)),
        height |-> BigEndian(Field(d, 17 + mlen, 4)),
        bit_depth |-> BigEndian(Field(d, 21 + mlen, 4)),
        index_count |-> BigEndian(Field(d, 25 + mlen, 4)),
        data_len |-> BigEndian(Field(d, 29 + mlen, 4)),
        data |-> Field(d, 33 + mlen, dlen),
        rest |-> Field(d, 33 + mlen + dlen, Len(d))]

\* the value of a base64 character of the standard alphabet, -1 for any other
B64Val(c) ==
    IF c >= 65 /\ c <= 90 THEN c - 65
    ELSE IF c >= 97 /\ c <= 122 THEN c - 71
    ELSE IF c >= 48 /\ c <= 57 THEN c + 4
    ELSE IF c = 43 THEN 62
    ELSE IF c = 47 THEN 63 ELSE -1

\* the padding characters a text ends with
Pads(t) ==
    IF Len(t) >= 2 /\ t[Len(t)] = 61 /\ t[Len(t) - 1] = 61 THEN 2
    ELSE IF Len(t) >= 1 /\ t[Len(t)] = 61 THEN 1 ELSE 0

\* RFC 4648 decoding of a padded text: [ok, bytes]; ok when the text is whole
\* groups of alphabet characters, padded at the end only, with zero spare bits
B64Decode(t) ==
    LET pads == Pads(t)
        n == 3 * (Len(t) \div 4) - pads
        v(i) == B64Val(t[i])
        wellFormed ==
            /\ Len(t) % 4 = 0
            /\ \A i \in 1..(Len(t) - pads) : v(i) >= 0
            /\ pads = 2 => v(Len(t) - 2) % 16 = 0
            /\ pads = 1 => v(Len(t) - 1) % 4 = 0
    IN [ok |-> wellFormed,
        bytes |-> IF ~wellFormed THEN <<>>
                  ELSE [i \in 1..n |->
                          LET g == 4 * ((i - 1) \div 3)
                              k == (i - 1) % 3
                          IN CASE k = 0 -> v(g + 1) * 4 + v(g + 2) \div 16
                               [] k = 1 -> (v(g + 2) % 16) * 16 + v(g + 3) \div 4
                               [] k = 2 -> (v(g + 3) % 4) * 64 + v(g + 4)]]

\* s without its last element
Front(s) == SubSeq(s, 1, Len(s) - 1)

----------------------------------------------------------------------------
(* Properties *)

\* C1: for every record, write_to into a sink that accepts all writes leaves
\* exactly: the type 3, the mime length, the mime bytes, 0, width, height,
\* bit depth, 0, the data length, the data bytes; each 4-byte field most
\* significant byte first, nothing before, between or after.
C1_WriteToLayout ==
    pc = "return_ok" =>
        LET d == out.dest
            m == meta[1]
            lm == Len(m.mime)
            ld == Len(m.data)
        IN /\ \A i \in 1..Len(d) : d[i] \in 0..255
           /\ Len(d) = 32 + lm + ld
           /\ BigEndian(SubSeq(d, 1, 4)) = <<0, 3>>
           /\ BigEndian(SubSeq(d, 5, 8)) = <<0, lm>>
           /\ SubSeq(d, 9, 8 + lm) = m.mime
           /\ BigEndian(SubSeq(d, 9 + lm, 12 + lm)) = <<0, 0>>
           /\ BigEndian(SubSeq(d, 13 + lm, 16 + lm)) = m.width
           /\ BigEndian(SubSeq(d, 17 + lm, 20 + lm)) = m.height
           /\ BigEndian(SubSeq(d, 21 + lm, 24 + lm)) = m.bit_depth
           /\ BigEndian(SubSeq(d, 25 + lm, 28 + lm)) = <<0, 0>>
           /\ BigEndian(SubSeq(d, 29 + lm, 32 + lm)) = <<0, ld>>
           /\ SubSeq(d, 33 + lm, 32 + lm + ld) = m.data

C1_Witness ==
    /\ pc = "return_ok"
    /\ meta[1].mime = MIME_PNG
    /\ meta[1].width = <<258, 772>>
    /\ meta[1].height = <<65535, 65535>>
    /\ meta[1].data = <<255, NEWLINE>>

\* C2, as stated: when write_to succeeds, the bytes written are
\* 36 + len(mime) + len(data).
C2_Length36 ==
    pc = "return_ok" => Len(out.dest) = 36 + Len(meta[1].mime) + Len(meta[1].data)

\* C2, amended: when write_to succeeds, the bytes written are
\* 32 + len(mime) + len(data): write_to writes eight 4-byte fields.
C2_RecordLength ==
    pc = "return_ok" => Len(out.dest) = 32 + Len(meta[1].mime) + Len(meta[1].data)

C2_Witness ==
    /\ pc = "return_ok"
    /\ meta[1].mime = MIME_JPEG
    /\ Len(meta[1].data) = 2
    /\ Len(out.dest) = 44

\* C3: for a PNG whose header parses, from_png gives bit_depth = channels *
\* bits per sample (Grayscale 1, Rgb 3, Indexed 1, GrayscaleAlpha 2, Rgba 4;
\* bits 1, 2, 4, 8, 16), mime "image/png", the header's width and height, and
\* the input bytes as data.
Channels ==
    [c \in ColorType |->
        CASE c = "Grayscale" -> 1 [] c = "Rgb" -> 3 [] c = "Indexed" -> 1
          [] c = "GrayscaleAlpha" -> 2 [] c = "Rgba" -> 4]

BitsPerSample ==
    [b \in BitDepth |->
        CASE b = "One" -> 1 [] b = "Two" -> 2 [] b = "Four" -> 4
          [] b = "Eight" -> 8 [] b = "Sixteen" -> 16]

C3_PngBitDepth ==
    (pc # "loaded" /\ input_type = "Png" /\ file # None /\ file[1].png.ok) =>
        LET h == file[1].png IN
        /\ pc = "parsed"
        /\ meta # None
        /\ meta[1].bit_depth = <<0, Channels[h.color] * BitsPerSample[h.depth]>>
        /\ (h.color = "Rgb" /\ h.depth = "Eight") => meta[1].bit_depth = <<0, 24>>
        /\ (h.color = "GrayscaleAlpha" /\ h.depth = "Eight") => meta[1].bit_depth = <<0, 16>>
        /\ meta[1].mime = MIME_PNG
        /\ meta[1].width = h.width
        /\ meta[1].height = h.height
        /\ meta[1].data = file[1].bytes

C3_Witness ==
    /\ pc = "parsed"
    /\ input_type = "Png"
    /\ file[1].png.ok
    /\ file[1].png.color = "Indexed"
    /\ file[1].png.depth = "Four"
    /\ meta[1].bit_depth = <<0, 4>>

\* C4: reading the bytes write_to produced, field by field, uses them all and
\* gives type 3, description length 0, index count 0 and the record's mime,
\* width, height, bit depth and data; so the record is a function of its
\* encoding, and two different records never encode to the same bytes.
C4_RoundTrip ==
    pc = "return_ok" =>
        LET r == ParseRecord(out.dest)
            m == meta[1]
        IN /\ r.type = <<0, 3>>
           /\ r.description_len = <<0, 0>>
           /\ r.index_count = <<0, 0>>
           /\ MetadataBlockPicture(r.mime, r.width, r.height, r.bit_depth, r.data) = m
           /\ r.rest = <<>>

C4_Witness ==
    /\ pc = "return_ok"
    /\ meta[1].mime = MIME_JPEG
    /\ meta[1].width = <<65535, 65535>>
    /\ meta[1].height = <<258, 772>>
    /\ meta[1].data = <<NEWLINE, 0>>
    /\ ParseRecord(out.dest).data = <<NEWLINE, 0>>

\* C5: an override flag decides the image type whatever the suffix; without
\* one, the suffix png gives PNG and jpg or jpeg gives JPEG; with neither,
\* run fails on resolving the input, and the input file is never read, no
\* decode is attempted and no output sink is created.
C5_TypeResolution ==
    pc # "start" =>
        /\ args.force_png => input_type = "Png"
        /\ args.force_jpeg => input_type = "Jpeg"
        /\ (~args.force_png /\ ~args.force_jpeg) =>
              /\ args.ext = "png" => input_type = "Png"
              /\ args.ext \in {"jpg", "jpeg"} => input_type = "Jpeg"
              /\ args.ext \notin {"png", "jpg", "jpeg"} =>
                    /\ input_type = "none"
                    /\ result = "ErrResolve"
                    /\ pc \in {"returned", "exited"}
                    /\ file = None
                    /\ meta = None
                    /\ out = NoSink
        /\ input_type # "none" => result # "ErrResolve"

C5_Witness ==
    /\ pc = "exited"
    /\ result = "ErrResolve"
    /\ args.ext = "PNG"
    /\ args.output = "cover.bin"
    /\ status = 1

\* C6: for a parsed image whose output reached the destination whole, the
\* Binary output is the record with nothing before or after; the Base64
\* output is one line, the RFC 4648 padded text that decodes to the record,
\* and one newline; the FFMetadata output is the header
\* ";FFMETADATA1\nMETADATA_BLOCK_PICTURE=" followed by exactly that line.
Base64Line(t, record) ==
    /\ t # <<>>
    /\ t[Len(t)] = NEWLINE
    /\ \A i \in 1..(Len(t) - 1) : t[i] # NEWLINE
    /\ B64Decode(Front(t)).ok
    /\ B64Decode(Front(t)).bytes = record

C6_OutputForms ==
    (pc = "exited" /\ result = "Ok" /\ ~out.ioerr) =>
        LET record == write_to(meta[1]) IN
        /\ out.buf = <<>>
        /\ out_fmt = "Binary" => out.dest = record
        /\ out_fmt = "Base64" => Base64Line(out.dest, record)
        /\ out_fmt = "FFMetadata" =>
              /\ Field(out.dest, 1, 36) = FFMETADATA_HEADER
              /\ Base64Line(Field(out.dest, 37, Len(out.dest)), record)

C6_Witness ==
    /\ pc = "exited"
    /\ result = "Ok"
    /\ ~out.ioerr
    /\ out_fmt = "FFMetadata"
    /\ out.kind = "file"
    /\ Len(write_to(meta[1])) % 3 = 1
    /\ Pads(Front(out.dest)) = 2

\* C7, as stated: whenever run ends in an error, a write failure included,
\* the destination has received none of the output bytes.
C7_NoPartialOutput ==
    (pc = "exited" /\ result # "Ok") => out.dest = <<>>

\* C7, amended: every error ends the invocation with a non-zero status, and
\* when run ends in an input resolution, read, decode or output file creation
\* error no sink exists and the destination has received nothing.  (A failed
\* write leaves what was written before it.)
C7_NoOutputBeforeSink ==
    /\ (pc = "exited" /\ result # "Ok") => status # 0
    /\ (pc # "start" /\ ~args.force_png /\ ~args.force_jpeg
          /\ args.ext \notin {"png", "jpg", "jpeg"}) => out = NoSink
    /\ (file # None /\ ~file[1].readable) => out = NoSink
    /\ result \in {"ErrResolve", "ErrRead", "ErrParse", "ErrCreate"} =>
          out = NoSink /\ pc \in {"returned", "exited"}

C7_Witness ==
    /\ pc = "exited"
    /\ result = "ErrCreate"
    /\ out_fmt = "Base64"
    /\ out.dest = <<>>
    /\ status = 1

\* C8: when the decoder rejects the input, from_type gives an error and no
\* record, run ends with a non-zero status, and the output sink is never
\* created or written; a sink exists only after the input was read and decoded.
ParseFails ==
    /\ file # None
    /\ file[1].readable
    /\ \/ input_type = "Png" /\ ~file[1].png.ok
       \/ input_type = "Jpeg" /\ ~file[1].jpeg.ok

C8_DecodeErrorNoOutput ==
    /\ ParseFails =>
          /\ meta = None
          /\ out = NoSink
          /\ pc \in {"loaded", "returned", "exited"}
          /\ pc # "loaded" => result = "ErrParse"
          /\ pc = "exited" => status = 1
    /\ out.kind # "none" => (file # None /\ file[1].readable /\ meta # None)

C8_Witness ==
    /\ pc = "exited"
    /\ ParseFails
    /\ input_type = "Png"
    /\ file[1].jpeg.ok
    /\ args.output = "cover.bin"
    /\ status = 1

\* C9, as stated: if any byte of the output fails to reach the destination,
\* a failure on flushing the buffered bytes at the end included, run returns
\* an error and the process exits with a non-zero status.
C9_NoWriteFailureSwallowed ==
    (pc = "exited" /\ out.ioerr) => (result # "Ok" /\ status # 0)

\* C10: a length of 2^32 or more is never written modulo 2^32: every length
\* field write_to writes holds the length exactly, write_to completes only
\* when both lengths fit, and the invocation then ends with a non-zero status.
Fits(z) == z[1] = 0 /\ z[2] = 0

LengthField(i, z) ==
    Len(out.dest) >= i =>
        /\ out.dest[i].len = usize_of(4)
        /\ <<0, 0>> \o BigEndian(out.dest[i].bytes) = z

C10_LengthOverflowFatal ==
    LET m == meta[1] IN
    /\ LengthField(2, m.mime_len)
    /\ LengthField(9, m.data_len)
    /\ Len(out.dest) >= 3 => out.dest[3].len = m.mime_len
    /\ Len(out.dest) >= 10 => out.dest[10].len = m.data_len
    /\ pc = "return_ok" => (Fits(m.mime_len) /\ Fits(m.data_len))
    /\ (~Fits(m.mime_len) \/ ~Fits(m.data_len)) =>
          /\ result \notin {"Ok"}
          /\ pc = "returned" => result = "Panic"
          /\ pc = "exited" => status # 0

C10_Witness ==
    /\ pc = "exited"
    /\ result = "Panic"
    /\ meta[1].mime_len = usize_of(9)
    /\ meta[1].data_len = <<0, 1, 0, 9>>
    /\ Len(out.dest) = 8
    /\ status = 101

=============================================================================
